---- MODULE Spec2Model ----
(***************************************************************************)
(* goduino: a Firmata client.  Two parts are modelled:                     *)
(*   - the 7-bit codec (from7Bit, to7Bit, multibyteString), as pure        *)
(*     operators applied by the actions of CodecSpec;                      *)
(*   - the Goduino facade (Connect, Disconnect, PinMode, ServoWrite,       *)
(*     PwmWrite) driving a firmataBoard, as the actions of Spec.           *)
(***************************************************************************)
EXTENDS Integers, Sequences, FiniteSets, TLC

VARIABLES
    cin,        \* codec: the input the codec function is applied to
    cout,       \* codec: the function's output ("none" before it ran)
    conn,       \* Goduino.conn: the handle held (NilConn when nil)
    opened,     \* number of successful openSP calls so far
    nconn,      \* board: number of connections (listener loops) running
    boardConn,  \* board: the handle given to the last successful board.Connect
    pins,       \* board: the pin table, board.Pins()
    op,         \* the last facade operation and its arguments
    pre,        \* what that operation found: the pin's entry, the connection
    calls,      \* the calls the last operation made on its collaborators, in order
    result      \* what the last operation returned: "ok", "err" or "panic"

vars == <<cin, cout, conn, opened, nconn, boardConn, pins, op, pre, calls, result>>
codecVars == <<cin, cout>>
facadeVars == <<conn, opened, nconn, boardConn, pins, op, pre, calls, result>>

----------------------------------------------------------------------------
(* Bounds *)

\* longest byte sequence handed to multibyteString
MaxLen == 3
\* number of pins the board reports in its capability reply
NumPins == 16
\* cap on the counter of successful openSP calls
MaxOpens == 2

----------------------------------------------------------------------------
(* byte arithmetic, as Go computes it on uint8 *)

Byte == 0..255

RECURSIVE BitAnd(_, _)
BitAnd(a, b) ==
    IF a = 0 \/ b = 0 THEN 0
    ELSE (a % 2) * (b % 2) + 2 * BitAnd(a \div 2, b \div 2)

RECURSIVE BitOr(_, _)
BitOr(a, b) ==
    IF a = 0 THEN b
    ELSE IF b = 0 THEN a
    ELSE (IF a % 2 = 1 \/ b % 2 = 1 THEN 1 ELSE 0) + 2 * BitOr(a \div 2, b \div 2)

RECURSIVE Pow2(_)
Pow2(n) == IF n = 0 THEN 1 ELSE 2 * Pow2(n - 1)

\* x << n on a byte: the bits shifted past bit 7 are lost
ShlByte(x, n) == (x * Pow2(n)) % 256

\* x >> n on a byte
ShrByte(x, n) == x \div Pow2(n)

----------------------------------------------------------------------------
(* the codec *)

from7Bit_noWrap(b0, b1) == BitAnd(b0, 127) + BitAnd(b1, 127) * Pow2(7)

from7Bit_shift6(b0, b1) == BitOr(BitAnd(b0, 127), ShlByte(BitAnd(b1, 127), 6))

from7Bit(b0, b1) == BitOr(BitAnd(b0, 127), ShlByte(BitAnd(b1, 127), 7))

to7Bit_noHigh(i) == <<BitAnd(i, 127), 0>>

to7Bit(i) == <<BitAnd(i, 127), BitAnd(ShrByte(i, 7), 127)>>

\* string(b) for a byte b: the UTF-8 encoding of the code point b
Utf8(c) == IF c < 128 THEN <<c>> ELSE <<192 + (c \div 64), 128 + (c % 64)>>

\* the characters (code points) of a string built from code points 0..255
RECURSIVE Runes(_)
Runes(s) ==
    IF s = <<>> THEN <<>>
    ELSE IF s[1] < 128 THEN <<s[1]>> \o Runes(Tail(s))
    ELSE <<(s[1] - 192) * 64 + (s[2] - 128)>> \o Runes(Tail(Tail(s)))

\* the for loop of multibyteString from 0-based index i on; data[i+1] past the
\* end of data is a run-time panic
RECURSIVE mbLoop(_, _, _)
mbLoop(data, i, str) ==
    IF i < Len(data)
    THEN IF i + 2 > Len(data)
         THEN [panic |-> TRUE, str |-> str]
         ELSE mbLoop(data, i + 2, str \o Utf8(from7Bit(data[i + 1], data[i + 2])))
    ELSE [panic |-> FALSE, str |-> str]

multibyteString_noPad(data) == mbLoop(data, 0, <<>>)

multibyteString(data) ==
    LET padded == IF Len(data) % 2 # 0 THEN Append(data, 0) ELSE data
    IN  mbLoop(padded, 0, <<>>)

\* the codec part of the state: the function applied, its input and output
NoInput == [f |-> "none", a |-> <<>>]
NoOutput == [done |-> FALSE, panic |-> FALSE, out |-> <<>>]
Returned(o) == [done |-> TRUE, panic |-> FALSE, out |-> o]

----------------------------------------------------------------------------
(* the facade's constants and values *)

Input == "Input"
Output == "Output"
Analog == "Analog"
Pwm == "Pwm"
Servo == "Servo"

\* connection handles (io.ReadWriteCloser values)
NilConn == [kind |-> "nil", id |-> 0]
InjectedConn == [kind |-> "injected", id |-> 0]
SerialConn(k) == [kind |-> "serial", id |-> k]

\* the arguments the operations are called with
\* a negative pin, a pin in the table, the first pin whose digitalPin is
\* outside the table, and the first pin outside the table
PinArgs == {-1, 0, NumPins - 14, NumPins}
ModeArgs == {Input, Output, Analog, Pwm, Servo}
ByteArgs == {90, 200}

NoOp == [name |-> "New", pin |-> 0, mode |-> "-", val |-> 0]
NoPre == [mode |-> "-", value |-> 0, nconn |-> 0, conn |-> NilConn]

\* one call on a collaborator (openSP, or a method of the firmataBoard) and
\* the error it returned
Call(f, pin, mode, val, h) ==
    [f |-> f, pin |-> pin, mode |-> mode, val |-> val, h |-> h, err |-> "ok"]
Failed(c, e) == [c EXCEPT !.err = e]
OpenSPCall == Call("openSP", 0, "-", 0, NilConn)
BoardConnectCall(h) == Call("Connect", 0, "-", 0, h)
BoardDisconnectCall == Call("Disconnect", 0, "-", 0, NilConn)
SetPinModeCall(pin, mode) == Call("SetPinMode", pin, mode, 0, NilConn)
ReportDigitalCall(pin, v) == Call("ReportDigital", pin, "-", v, NilConn)
ReportAnalogCall(pin, v) == Call("ReportAnalog", pin, "-", v, NilConn)
AnalogWriteCall(pin, v) == Call("AnalogWrite", pin, "-", v, NilConn)

----------------------------------------------------------------------------
(* the firmataBoard behind the facade: its pin table and connection *)

\* the pin table after the capability reply: every pin unset, value 0
FreshPins == [i \in 1..NumPins |-> [mode |-> "Unset", value |-> 0]]

\* pin indexes the table P holds
InTable(P, pin) == pin >= 0 /\ pin < Len(P)

\* a pin command reaches the wire when the pin is in the table (the table is
\* empty without a connection) and the transport write t succeeds
BoardAccepts(P, c, t) == InTable(P, c.pin) /\ t

BoardError(P, c) == IF InTable(P, c.pin) THEN "transport error" ELSE "out of range"

\* the pin table after an accepted command
BoardApply(P, c) ==
    CASE c.f = "SetPinMode" -> [P EXCEPT ![c.pin + 1].mode = c.mode]
      [] c.f = "AnalogWrite" -> [P EXCEPT ![c.pin + 1].value = c.val]
      [] OTHER -> P

\* board.Connect(h): refused while a connection exists; otherwise the
\* handshake ok decides between a populated pin table and a failure
BoardConnect(n, h, ok) ==
    IF n > 0 THEN [err |-> "already connected", started |-> FALSE]
    ELSE IF ok THEN [err |-> "ok", started |-> TRUE]
    ELSE [err |-> "timeout", started |-> FALSE]

\* board.Disconnect(): stops the listener, releases the transport and
\* discards the pin table; a no-op without a connection, never a failure
BoardDisconnect == [nconn |-> 0, boardConn |-> NilConn, pins |-> <<>>, err |-> "ok"]

----------------------------------------------------------------------------
(* the facade: Goduino *)

\* uint8(pin)
Uint8(pin) == pin % 256

\* digitalPin: the index of analog pin `pin` in the digital numbering
digitalPin(pin) == pin + 14

\* the condition under which Connect opens the serial port
NeedsOpen_always(c) == TRUE

NeedsOpen(c) == c = NilConn

\* what Connect returns, given what board.Connect returned
ConnectReturn_swallow(boardErr) == "ok"

ConnectReturn(boardErr) == boardErr

\* PinMode's validity check of its pin argument against len(board.Pins())
PinInvalid(pin, n) == Uint8(pin) < 0 \/ pin > n

\* the condition under which ServoWrite and PwmWrite set the mode first
NeedsModeSwitch_never(cur, want) == FALSE

NeedsModeSwitch_always(cur, want) == TRUE

NeedsModeSwitch(cur, want) == cur # want

\* the board calls PinMode makes, in order, while each succeeds
PinModePlan_reportFirst(pin, mode) ==
    CASE mode = Input -> <<ReportDigitalCall(pin, 1), SetPinModeCall(pin, mode)>>
      [] mode = Analog ->
            <<ReportAnalogCall(digitalPin(pin), 1), SetPinModeCall(digitalPin(pin), mode)>>
      [] OTHER -> <<SetPinModeCall(pin, mode)>>

PinModePlan(pin, mode) ==
    CASE mode = Input -> <<SetPinModeCall(pin, mode), ReportDigitalCall(pin, 1)>>
      [] mode = Analog ->
            <<SetPinModeCall(digitalPin(pin), mode), ReportAnalogCall(digitalPin(pin), 1)>>
      [] OTHER -> <<SetPinModeCall(pin, mode)>>

\* the board calls ServoWrite (want = Servo) and PwmWrite (want = Pwm) make
WritePlan(cur, want, pin, v) ==
    (IF NeedsModeSwitch(cur, want) THEN <<SetPinModeCall(pin, want)>> ELSE <<>>)
        \o <<AnalogWriteCall(pin, v)>>

\* the calls of plan made one after the other on pin table P with transport
\* outcomes ts, returning at the first error
RECURSIVE RunPlan(_, _, _, _)
RunPlan(plan, P, ts, made) ==
    IF plan = <<>> THEN [pins |-> P, calls |-> made, result |-> "ok"]
    ELSE LET c == Head(plan)
             e == BoardError(P, c)
         IN  IF BoardAccepts(P, c, Head(ts))
             THEN RunPlan(Tail(plan), BoardApply(P, c), Tail(ts), Append(made, c))
             ELSE [pins |-> P, calls |-> Append(made, Failed(c, e)), result |-> e]

\* the transport outcomes of the calls of a plan, one per call
Outcomes(plan) == [1..Len(plan) -> BOOLEAN]

\* New(name, args...): conn is nil unless an io.ReadWriteCloser was passed
Init ==
    /\ cin = NoInput /\ cout = NoOutput
    /\ conn \in {NilConn, InjectedConn}
    /\ opened = 0
    /\ nconn = 0
    /\ boardConn = NilConn
    /\ pins = <<>>
    /\ op = NoOp
    /\ pre = NoPre
    /\ calls = <<>>
    /\ result = "ok"

\* Connect, when openSP fails: the error is returned
ConnectOpenFails ==
    /\ NeedsOpen(conn)
    /\ opened < MaxOpens
    /\ op' = [NoOp EXCEPT !.name = "Connect"]
    /\ pre' = [NoPre EXCEPT !.nconn = nconn, !.conn = conn]
    /\ calls' = <<Failed(OpenSPCall, "open failed")>>
    /\ result' = "open failed"
    /\ UNCHANGED <<conn, opened, nconn, boardConn, pins, codecVars>>

\* Connect, when a handle is held or openSP succeeds: board.Connect(conn)
ConnectBoard ==
    \E ok \in BOOLEAN :
        LET open == NeedsOpen(conn)
            h == IF open THEN SerialConn(opened + 1) ELSE conn
            r == BoardConnect(nconn, h, ok)
        IN  /\ open => opened < MaxOpens
            /\ conn' = h
            /\ opened' = IF open THEN opened + 1 ELSE opened
            /\ nconn' = IF r.started THEN nconn + 1 ELSE nconn
            /\ boardConn' = IF r.started THEN h ELSE boardConn
            /\ pins' = IF r.started THEN FreshPins ELSE pins
            /\ op' = [NoOp EXCEPT !.name = "Connect"]
            /\ pre' = [NoPre EXCEPT !.nconn = nconn, !.conn = conn]
            /\ calls' = (IF open THEN <<OpenSPCall>> ELSE <<>>)
                            \o <<Failed(BoardConnectCall(h), r.err)>>
            /\ result' = ConnectReturn(r.err)
            /\ UNCHANGED codecVars

\* Disconnect: the board is set by New and never nil, so board.Disconnect()
\* is called and its result returned
Disconnect ==
    /\ nconn' = BoardDisconnect.nconn
    /\ boardConn' = BoardDisconnect.boardConn
    /\ pins' = BoardDisconnect.pins
    /\ op' = [NoOp EXCEPT !.name = "Disconnect"]
    /\ pre' = [NoPre EXCEPT !.nconn = nconn, !.conn = conn]
    /\ calls' = <<Failed(BoardDisconnectCall, BoardDisconnect.err)>>
    /\ result' = BoardDisconnect.err
    /\ UNCHANGED <<conn, opened, codecVars>>

PinMode(pin, mode) ==
    /\ op' = [name |-> "PinMode", pin |-> pin, mode |-> mode, val |-> 0]
    /\ pre' = NoPre
    /\ IF PinInvalid(pin, Len(pins))
       THEN /\ calls' = <<>>
            /\ result' = "invalid pin"
            /\ pins' = pins
       ELSE \E ts \in Outcomes(PinModePlan(pin, mode)) :
                LET r == RunPlan(PinModePlan(pin, mode), pins, ts, <<>>)
                IN  /\ calls' = r.calls
                    /\ result' = r.result
                    /\ pins' = r.pins
    /\ UNCHANGED <<conn, opened, nconn, boardConn, codecVars>>

\* ServoWrite (want = Servo) and PwmWrite (want = Pwm); indexing
\* board.Pins() with a pin outside the table is a run-time panic
Write(name, want, pin, v) ==
    /\ op' = [name |-> name, pin |-> pin, mode |-> want, val |-> v]
    /\ pre' = IF InTable(pins, pin)
              THEN [NoPre EXCEPT !.mode = pins[pin + 1].mode, !.value = pins[pin + 1].value]
              ELSE NoPre
    /\ IF ~InTable(pins, pin)
       THEN /\ calls' = <<>>
            /\ result' = "panic"
            /\ pins' = pins
       ELSE \E ts \in Outcomes(WritePlan(pins[pin + 1].mode, want, pin, v)) :
                LET r == RunPlan(WritePlan(pins[pin + 1].mode, want, pin, v), pins, ts, <<>>)
                IN  /\ calls' = r.calls
                    /\ result' = r.result
                    /\ pins' = r.pins
    /\ UNCHANGED <<conn, opened, nconn, boardConn, codecVars>>

ServoWrite(pin, angle) == Write("ServoWrite", Servo, pin, angle)

PwmWrite(pin, level) == Write("PwmWrite", Pwm, pin, level)

DoPinMode == \E pin \in PinArgs, mode \in ModeArgs : PinMode(pin, mode)
DoServoWrite == \E pin \in PinArgs, angle \in ByteArgs : ServoWrite(pin, angle)
DoPwmWrite == \E pin \in PinArgs, level \in ByteArgs : PwmWrite(pin, level)

Next ==
    \/ ConnectOpenFails
    \/ ConnectBoard
    \/ Disconnect
    \/ DoPinMode
    \/ DoServoWrite
    \/ DoPwmWrite

Spec == Init /\ [][Next]_vars

----------------------------------------------------------------------------
(* Claims about the facade *)

PinOps == {"PinMode", "ServoWrite", "PwmWrite"}
PinCommands == {"SetPinMode", "ReportDigital", "ReportAnalog", "AnalogWrite"}
IsError(r) == r \notin {"ok", "panic"}

\* C5 as claimed: PinMode, ServoWrite and PwmWrite called with a pin index
\* that is negative or >= len(board.Pins()) return an error and issue no board
\* command; every pin index they hand to the board lies in the pin table.
C5_OutOfRangeRejected ==
    op.name \in PinOps =>
        /\ ~InTable(pins, op.pin) => (IsError(result) /\ calls = <<>>)
        /\ \A i \in 1..Len(calls) :
               calls[i].f \in PinCommands => InTable(pins, calls[i].pin)

\* C6 as claimed: ServoWrite on a pin of the table whose mode is not Servo
\* returns an error, sends no command and leaves the pin's entry as it was.
C6_Original ==
    (op.name = "ServoWrite" /\ InTable(pins, op.pin) /\ pre.mode # Servo) =>
        /\ IsError(result)
        /\ calls = <<>>
        /\ pins[op.pin + 1] = [mode |-> pre.mode, value |-> pre.value]

\* C6 amended: ServoWrite on a pin of the table whose mode is not Servo does
\* not reject the call: it first issues SetPinMode(pin, Servo); if that fails
\* it returns that error, sends no AnalogWrite and leaves the pin's mode and
\* value unchanged; otherwise it issues AnalogWrite(pin, angle) and returns
\* that call's result, the pin's mode being Servo, and its value the angle
\* when the write succeeded.
C6_AutoSwitch ==
    (op.name = "ServoWrite" /\ InTable(pins, op.pin) /\ pre.mode # Servo) =>
        /\ Len(calls) >= 1
        /\ [calls[1] EXCEPT !.err = "ok"] = SetPinModeCall(op.pin, Servo)
        /\ calls[1].err # "ok" =>
               /\ Len(calls) = 1
               /\ result = calls[1].err
               /\ pins[op.pin + 1] = [mode |-> pre.mode, value |-> pre.value]
        /\ calls[1].err = "ok" =>
               /\ Len(calls) = 2
               /\ [calls[2] EXCEPT !.err = "ok"] = AnalogWriteCall(op.pin, op.val)
               /\ result = calls[2].err
               /\ pins[op.pin + 1].mode = Servo
               /\ pins[op.pin + 1].value =
                      (IF result = "ok" THEN op.val ELSE pre.value)

C6_Witness ==
    /\ op.name = "ServoWrite" /\ InTable(pins, op.pin)
    /\ pre.mode = Input
    /\ Len(calls) = 2 /\ result = "ok"
    /\ pins[op.pin + 1] = [mode |-> Servo, value |-> 200]

\* C7: ServoWrite(pin, angle) on a pin of the table whose mode is already
\* Servo (a SetPinMode(pin, Servo) succeeded before) issues exactly one
\* AnalogWrite(pin, angle) and no further SetPinMode, returns what that call
\* returns, and, the board having accepted the write, succeeds and ends with
\* the pin's entry having mode Servo and value angle; the same for PwmWrite
\* with mode Pwm.
C7_WriteInMode ==
    (op.name \in {"ServoWrite", "PwmWrite"} /\ InTable(pins, op.pin)
        /\ pre.mode = op.mode) =>
        /\ op.mode = (IF op.name = "ServoWrite" THEN Servo ELSE Pwm)
        /\ Len(calls) = 1
        /\ [calls[1] EXCEPT !.err = "ok"] = AnalogWriteCall(op.pin, op.val)
        /\ result = calls[1].err
        /\ pins[op.pin + 1].mode = op.mode
        /\ calls[1].err = "ok" =>
               /\ result = "ok"
               /\ pins[op.pin + 1] = [mode |-> op.mode, value |-> op.val]

C7_Witness ==
    /\ op = [name |-> "ServoWrite", pin |-> 0, mode |-> Servo, val |-> 90]
    /\ pre.mode = Servo /\ pre.value = 200
    /\ calls = <<AnalogWriteCall(0, 90)>>
    /\ result = "ok"
    /\ pins[1] = [mode |-> Servo, value |-> 90]

\* C8: a Connect issued while a connection exists fails with the
\* already-connected error and starts no second connection; at most one
\* connection exists at any time.
C8_SingleConnection ==
    /\ nconn <= 1
    /\ (op.name = "Connect" /\ pre.nconn > 0) =>
           /\ result = "already connected"
           /\ nconn = pre.nconn
           /\ boardConn = pre.conn
           /\ conn = pre.conn

C8_Witness ==
    /\ op.name = "Connect" /\ pre.nconn = 1
    /\ result = "already connected" /\ nconn = 1

\* the calls PinMode(pin, mode) is to make, in order, as C9 lists them
C9_Expected(pin, mode) ==
    IF mode = "Input"
    THEN <<[f |-> "SetPinMode", pin |-> pin, mode |-> "Input"],
           [f |-> "ReportDigital", pin |-> pin, val |-> 1]>>
    ELSE IF mode = "Analog"
    THEN <<[f |-> "SetPinMode", pin |-> pin + 14, mode |-> "Analog"],
           [f |-> "ReportAnalog", pin |-> pin + 14, val |-> 1]>>
    ELSE <<[f |-> "SetPinMode", pin |-> pin, mode |-> mode]>>

C9_Matches(c, e) ==
    /\ c.f = e.f /\ c.pin = e.pin
    /\ (e.f = "SetPinMode" => c.mode = e.mode)
    /\ (e.f # "SetPinMode" => c.val = e.val)

\* C9: PinMode issues its board commands in a fixed order and stops at the
\* first failure: SetPinMode then ReportDigital(pin, 1) for Input, SetPinMode
\* then ReportAnalog(.., 1) on the same mapped pin for Analog, SetPinMode alone
\* otherwise; a reporting command follows a successful SetPinMode of the same
\* call; the first error is returned, nothing is sent after it, nothing twice.
C9_OrderedStopAtFirstFailure ==
    op.name = "PinMode" =>
        LET want == C9_Expected(op.pin, op.mode)
        IN  /\ Len(calls) <= Len(want)
            /\ \A i \in 1..Len(calls) : C9_Matches(calls[i], want[i])
            /\ \A i \in 1..Len(calls) : i < Len(calls) => calls[i].err = "ok"
            /\ result = "ok" =>
                   /\ Len(calls) = Len(want)
                   /\ \A i \in 1..Len(calls) : calls[i].err = "ok"
            /\ (result # "ok" /\ calls # <<>>) =>
                   /\ calls[Len(calls)].err # "ok"
                   /\ result = calls[Len(calls)].err
            /\ calls = <<>> => result = "invalid pin"

C9_Witness ==
    /\ op = [name |-> "PinMode", pin |-> 0, mode |-> Analog, val |-> 0]
    /\ Len(calls) = 2
    /\ calls[1] = SetPinModeCall(14, Analog)
    /\ calls[2].f = "ReportAnalog" /\ calls[2].pin = 14 /\ calls[2].err # "ok"
    /\ result = calls[2].err

\* C10: Connect opens the serial port only when no handle is held: with a
\* handle held (injected, or stored by an earlier Connect, also after a
\* Disconnect) openSP is not called and that handle goes to board.Connect;
\* when openSP fails its error is returned, board.Connect is not called and
\* no handle is stored; so the port is opened successfully at most once.
C10_OpenOnlyWithoutHandle ==
    /\ opened <= 1
    /\ conn.kind = "injected" => opened = 0
    /\ op.name = "Connect" =>
           /\ pre.conn # NilConn =>
                  /\ conn = pre.conn
                  /\ Len(calls) = 1
                  /\ [calls[1] EXCEPT !.err = "ok"] = BoardConnectCall(pre.conn)
           /\ pre.conn = NilConn =>
                  /\ calls[1].f = "openSP"
                  /\ calls[1].err # "ok" =>
                         /\ result = calls[1].err
                         /\ Len(calls) = 1
                         /\ conn = NilConn
                         /\ nconn = pre.nconn
                  /\ calls[1].err = "ok" =>
                         /\ conn = SerialConn(opened)
                         /\ Len(calls) = 2
                         /\ [calls[2] EXCEPT !.err = "ok"] = BoardConnectCall(conn)

C10_Witness ==
    /\ op.name = "Connect" /\ pre.conn = SerialConn(1) /\ pre.nconn = 0
    /\ opened = 1 /\ nconn = 1
    /\ calls = <<BoardConnectCall(SerialConn(1))>>

----------------------------------------------------------------------------
(* CodecSpec: the codec functions applied to inputs drawn from bounded sets *)

\* the byte values the sequences handed to multibyteString are built from
ByteVals == {0, 1, 2, 65, 127, 128, 200, 255}

RECURSIVE SeqsUpTo(_, _)
SeqsUpTo(S, n) ==
    IF n = 0 THEN {<<>>}
    ELSE LET shorter == SeqsUpTo(S, n - 1)
         IN  shorter \cup {Append(s, x) : s \in {t \in shorter : Len(t) = n - 1}, x \in S}

\* the facade part of the state, held still while the codec is exercised
FacadeIdle ==
    /\ conn = NilConn /\ opened = 0 /\ nconn = 0 /\ boardConn = NilConn
    /\ pins = <<>> /\ op = NoOp /\ pre = NoPre /\ calls = <<>> /\ result = "ok"

CodecInit ==
    /\ \/ \E v \in Byte : cin = [f |-> "to7Bit", a |-> <<v>>]
       \/ \E b0 \in Byte, b1 \in Byte : cin = [f |-> "from7Bit", a |-> <<b0, b1>>]
       \/ \E d \in SeqsUpTo(ByteVals, MaxLen) : cin = [f |-> "multibyteString", a |-> d]
    /\ cout = NoOutput
    /\ FacadeIdle

CallTo7Bit ==
    /\ cin.f = "to7Bit" /\ ~cout.done
    /\ cout' = Returned(to7Bit(cin.a[1]))
    /\ UNCHANGED <<cin, facadeVars>>

CallFrom7Bit ==
    /\ cin.f = "from7Bit" /\ ~cout.done
    /\ cout' = Returned(<<from7Bit(cin.a[1], cin.a[2])>>)
    /\ UNCHANGED <<cin, facadeVars>>

CallMultibyteString ==
    /\ cin.f = "multibyteString" /\ ~cout.done
    /\ LET r == multibyteString(cin.a)
       IN  cout' = [done |-> TRUE, panic |-> r.panic, out |-> r.str]
    /\ UNCHANGED <<cin, facadeVars>>

CodecNext == CallTo7Bit \/ CallFrom7Bit \/ CallMultibyteString

CodecSpec == CodecInit /\ [][CodecNext]_vars

----------------------------------------------------------------------------
(* Claims about the codec *)

\* each decoded character of a string re-encoded through to7Bit, concatenated
RECURSIVE ReEncode(_)
ReEncode(chars) ==
    IF chars = <<>> THEN <<>> ELSE to7Bit(chars[1]) \o ReEncode(Tail(chars))

\* C1: for every byte v, from7Bit applied to the two bytes of to7Bit(v) gives
\* v back, and for v <= 127 the high byte of to7Bit(v) is 0.
C1_RoundTrip ==
    (cin.f = "to7Bit" /\ cout.done) =>
        /\ Len(cout.out) = 2
        /\ from7Bit(cout.out[1], cout.out[2]) = cin.a[1]
        /\ (cin.a[1] <= 127 => cout.out[2] = 0)

C1_Witness ==
    /\ cin.f = "to7Bit" /\ cout.done
    /\ cin.a[1] = 200 /\ cout.out = <<72, 1>>

\* C2 as claimed: for all b0, b1 in 0..127, from7Bit(b0, b1) is the 14-bit
\* integer b0 + 128*b1.
C2_Original ==
    (cin.f = "from7Bit" /\ cout.done /\ cin.a[1] <= 127 /\ cin.a[2] <= 127) =>
        cout.out = <<cin.a[1] + 128 * cin.a[2]>>

\* C2 amended: for all b0, b1 in 0..127, from7Bit(b0, b1) is b0 | (b1 << 7)
\* truncated to a byte, that is (b0 + 128*b1) mod 256 = b0 + 128*(b1 mod 2);
\* the result lies in 0..255 and equals b0 + 128*b1 exactly when b1 <= 1.
C2_Truncated ==
    (cin.f = "from7Bit" /\ cout.done /\ cin.a[1] <= 127 /\ cin.a[2] <= 127) =>
        /\ cout.out = <<(cin.a[1] + 128 * cin.a[2]) % 256>>
        /\ cout.out = <<cin.a[1] + 128 * (cin.a[2] % 2)>>
        /\ cout.out[1] \in Byte
        /\ (cout.out[1] = cin.a[1] + 128 * cin.a[2]) <=> (cin.a[2] <= 1)

C2_Witness ==
    /\ cin.f = "from7Bit" /\ cout.done
    /\ cin.a = <<5, 3>> /\ cout.out = <<133>>

\* a sequence of (low, high) pairs that some byte string encodes to
WellFormedPairs(d) ==
    /\ Len(d) % 2 = 0
    /\ \A k \in 1..(Len(d) \div 2) : d[2 * k - 1] <= 127 /\ d[2 * k] <= 1

\* C3 as claimed: for every even-length byte sequence d, multibyteString
\* followed by re-encoding each decoded character through to7Bit gives d.
C3_Original ==
    (cin.f = "multibyteString" /\ cout.done /\ Len(cin.a) % 2 = 0) =>
        /\ ~cout.panic
        /\ ReEncode(Runes(cout.out)) = cin.a

\* C3 amended: for an even-length byte sequence d, multibyteString followed by
\* re-encoding each decoded character through to7Bit gives d exactly when every
\* pair of d has a low byte <= 127 and a high byte <= 1; in every other pair
\* the re-encoding gives (low mod 128, high mod 2) instead.
C3_RoundTripWellFormed ==
    (cin.f = "multibyteString" /\ cout.done /\ Len(cin.a) % 2 = 0) =>
        /\ ~cout.panic
        /\ (ReEncode(Runes(cout.out)) = cin.a) <=> WellFormedPairs(cin.a)
        /\ ReEncode(Runes(cout.out)) =
               [i \in 1..Len(cin.a) |->
                   IF i % 2 = 1 THEN cin.a[i] % 128 ELSE cin.a[i] % 2]

C3_Witness ==
    /\ cin.f = "multibyteString" /\ cout.done
    /\ cin.a = <<65, 1>>
    /\ Runes(cout.out) = <<193>>
    /\ ReEncode(Runes(cout.out)) = <<65, 1>>

\* C4: multibyteString fails on no byte sequence d (empty and odd-length
\* included); for odd-length d the result is that of d with a zero byte
\* appended; the output holds ceil(len(d)/2) characters, the k-th (from 0)
\* being from7Bit(d[2k], d[2k+1]) with the missing last byte read as 0.
C4_Total ==
    (cin.f = "multibyteString" /\ cout.done) =>
        LET d == cin.a
            n == (Len(d) + 1) \div 2
            at(i) == IF i <= Len(d) THEN d[i] ELSE 0
        IN  /\ ~cout.panic
            /\ Len(d) % 2 = 1 =>
                   /\ ~multibyteString(Append(d, 0)).panic
                   /\ cout.out = multibyteString(Append(d, 0)).str
            /\ Len(Runes(cout.out)) = n
            /\ \A k \in 1..n :
                   Runes(cout.out)[k] = from7Bit(at(2 * k - 1), at(2 * k))

C4_Witness ==
    /\ cin.f = "multibyteString" /\ cout.done /\ ~cout.panic
    /\ cin.a = <<65, 1, 200>>
    /\ Runes(cout.out) = <<193, 72>>

====
